---- MODULE Spec2Model ----
(***************************************************************************)
(* A model of the WeatherAPP backend (src/src/main.py, weather_api.py,     *)
(* models.py, database.py): the two SQLite tables, the request handlers    *)
(* that write them, and the provider client's city search.                 *)
(*                                                                         *)
(* Granularity.  Every request has a session of its own (get_db) and the   *)
(* tables live in one SQLite file, so a step of the model is one database  *)
(* round trip of a handler (a SELECT, or a commit with the statements it   *)
(* flushes) together with the Python code that runs up to the next one.    *)
(* A provider call (await weather_api....) touches no table; its result    *)
(* is drawn in the step that consumes it.  The handlers declared `def` run *)
(* in worker threads and the application may be served by several worker   *)
(* processes over the same file, so requests interleave between any two    *)
(* round trips.                                                            *)
(***************************************************************************)
EXTENDS Integers, Sequences, FiniteSets, TLC

VARIABLES
    locations,   \* table location: id -> row            (models.py 5-19)
    snapshots,   \* table weathersnapshot: id -> row     (models.py 21-37)
    pc,          \* per request: where its handler stands
    geo,         \* per request: create_location's geo_data
    lid,         \* per request: the location id the handler works on
    sel,         \* per request: delete_location's list `snapshots` (ids)
    chg,         \* per request: update_location's pending attribute changes
    resp,        \* per request: the response, once the handler has returned
    mode,        \* "conc": requests interleave; "seq": calls never overlap
    hist,        \* history of the running call (recorded in mode "seq" only)
    search       \* the search_cities request (GET /api/search)

vars == <<locations, snapshots, pc, geo, lid, sel, chg, resp, mode, hist, search>>
dbvars == <<locations, snapshots>>
reqvars == <<pc, geo, lid, sel, chg, resp>>

----------------------------------------------------------------------------
(* Bounds *)

MaxLocIdSeq == 2
MaxSnapIdSeq == 2
MaxLocIdConc == 2
MaxSnapIdConc == 1
MaxTimeSeq == 2
MaxTimeConc == 1
MaxQLen == 4
MaxMatches == 6

Requests == {1, 2}

\* Optional[T]: None, or one value
None == <<>>
Some(x) == <<x>>
Get(o) == o[1]

MaxLocId == IF mode = "seq" THEN MaxLocIdSeq ELSE MaxLocIdConc
MaxSnapId == IF mode = "seq" THEN MaxSnapIdSeq ELSE MaxSnapIdConc

MaxTime == IF mode = "seq" THEN MaxTimeSeq ELSE MaxTimeConc

\* datetime.utcnow(): wall-clock time, any instant
Times == 1..MaxTime

----------------------------------------------------------------------------
(* Provider values (coordinates x 10^4, temperatures x 10) *)

London == [name |-> "London", country |-> "GB", lat |-> 515074, lon |-> -1278]
CityOfLondon == [name |-> "City of London", country |-> "GB", lat |-> 515074, lon |-> -1278]
Paris == [name |-> "Paris", country |-> "FR", lat |-> 488566, lon |-> 23522]

GeoSet == {London, CityOfLondon, Paris}
CityNames == {g.name : g \in GeoSet}

ClearSky == [temp |-> 155, description |-> "clear sky", icon |-> "01d",
             humidity |-> 50, wind_speed |-> 50, feels_like |-> 140]
LightRain == [temp |-> 90, description |-> "light rain", icon |-> "10d",
              humidity |-> 81, wind_speed |-> 32, feels_like |-> 70]

WeatherSet == {ClearSky, LightRain}

\* weather_api.get_coordinates: data[0] of the limit-1 query, or None when
\* the upstream fails or has no match
get_coordinates(city_name) ==
    {None} \cup {Some(g) : g \in {x \in GeoSet : x.name = city_name}}

\* weather_api.get_current_weather: the six fields, or None on any error
get_current_weather(lat, lon) == {None} \cup {Some(w) : w \in WeatherSet}

----------------------------------------------------------------------------
(* Tables *)

Max(S) == CHOOSE x \in S : \A y \in S : y <= x

\* SQLite INTEGER PRIMARY KEY without AUTOINCREMENT: one more than the
\* largest rowid in the table, so the id of a deleted last row is reused.
NextId(table) == IF DOMAIN table = {} THEN 1 ELSE Max(DOMAIN table) + 1

\* (mutant) last_synced defaulting to the creation time, as
\* WeatherSnapshot.timestamp does
NewLocationStamped(geo_data) ==
    [name |-> geo_data.name, country |-> geo_data.country,
     lat |-> geo_data.lat, lon |-> geo_data.lon,
     display_name |-> None, is_favorite |-> FALSE, last_synced |-> Some(1)]

\* Location(name=..., country=..., lat=..., lon=...) with the defaults
NewLocation(geo_data) ==
    [name |-> geo_data.name, country |-> geo_data.country,
     lat |-> geo_data.lat, lon |-> geo_data.lon,
     display_name |-> None, is_favorite |-> FALSE, last_synced |-> None]

\* (mutant) temp taken from feels_like
NewSnapshotFeelsLike(location_id, weather_data) ==
    [location_id |-> location_id, temp |-> weather_data.feels_like,
     description |-> weather_data.description, icon |-> weather_data.icon,
     humidity |-> weather_data.humidity, wind_speed |-> weather_data.wind_speed,
     feels_like |-> weather_data.feels_like]

\* WeatherSnapshot(location_id=..., temp=..., ...)
NewSnapshot(location_id, weather_data) ==
    [location_id |-> location_id, temp |-> weather_data.temp,
     description |-> weather_data.description, icon |-> weather_data.icon,
     humidity |-> weather_data.humidity, wind_speed |-> weather_data.wind_speed,
     feels_like |-> weather_data.feels_like]

Insert(table, id, row) == (id :> row) @@ table
Remove(table, ids) == [i \in DOMAIN table \ ids |-> table[i]]

\* the row as the response carries it
WithId(table, id) == [id |-> id, row |-> table[id]]

\* (mutant) the longitude column compared with the latitude
LocationsAtLatTwice(lat, lon) ==
    {i \in DOMAIN locations : locations[i].lat = lat /\ locations[i].lon = lat}

\* select(Location).where(Location.lat == lat, Location.lon == lon)
LocationsAt(lat, lon) ==
    {i \in DOMAIN locations : locations[i].lat = lat /\ locations[i].lon = lon}

\* (mutant) duplicates looked up by name
ExistingByName(geo_data) ==
    {i \in DOMAIN locations : locations[i].name = geo_data.name}

\* main.py 66: the rows create_location takes for the city
Existing(geo_data) == LocationsAt(geo_data.lat, geo_data.lon)

\* select(WeatherSnapshot).where(WeatherSnapshot.location_id == location_id)
SnapshotsOf(location_id) ==
    {s \in DOMAIN snapshots : snapshots[s].location_id = location_id}

\* the rows of a table, read off the table itself
RowsAt(table, lat, lon) == {i \in DOMAIN table : table[i].lat = lat /\ table[i].lon = lon}
SnapsOf(table, id) == {s \in DOMAIN table : table[s].location_id = id}

Response(status, detail, body) == [status |-> status, detail |-> detail, body |-> body]
Ok(body) == Response(200, "", Some(body))
Error(status, detail) == Response(status, detail, None)
NoResponse == Response(0, "", None)
NoChange == [is_favorite |-> None, display_name |-> None]

----------------------------------------------------------------------------
(* History of the running call, kept only when calls do not overlap *)

NoHist == "NoHist"
NoLast == [geo |-> None, resp |-> NoResponse]
NoPrev == [geo |-> None, resp |-> NoResponse, locations |-> <<>>, snapshots |-> <<>>]
NoCall == [op |-> "none", geo |-> None, existed |-> FALSE, asked |-> FALSE,
           weather |-> None, prev |-> NoPrev, last |-> NoLast]

\* A call begins: its operation and, for create_location, what the provider
\* resolved and whether a row was at those coordinates.  When the call and
\* the one before it are both create_location calls whose names resolved,
\* `prev` keeps what the earlier one resolved and returned, and the tables
\* as they are between the two.
Begin(op, geo_data) ==
    IF mode = "seq"
    THEN [op |-> op, geo |-> geo_data,
          existed |-> /\ op = "add"
                      /\ geo_data # None
                      /\ RowsAt(locations, Get(geo_data).lat, Get(geo_data).lon) # {},
          asked |-> FALSE, weather |-> None,
          prev |-> IF op = "add" /\ geo_data # None /\ hist.last.geo # None
                   THEN [geo |-> hist.last.geo, resp |-> hist.last.resp,
                         locations |-> locations, snapshots |-> snapshots]
                   ELSE NoPrev,
          last |-> NoLast]
    ELSE NoHist

\* the provider answered the call's get_current_weather
Weather(weather_data) ==
    IF mode = "seq"
    THEN [hist EXCEPT !.asked = TRUE, !.weather = weather_data]
    ELSE NoHist

\* the call is over: of a create_location call whose name resolved, what it
\* resolved to and returned is kept for the next call
End(response) ==
    IF mode = "seq"
    THEN [NoCall EXCEPT !.last = IF hist.op = "add" /\ hist.geo # None
                                 THEN [geo |-> hist.geo, resp |-> response]
                                 ELSE NoLast]
    ELSE NoHist

\* a request may start: its slot is free and, when calls do not overlap,
\* every other handler has returned
CanStart(r) ==
    /\ pc[r] = "idle"
    /\ mode = "seq" => r = 1

\* the handler returns or raises: the response is on its way
Finish(r, response) ==
    /\ pc' = [pc EXCEPT ![r] = "done"]
    /\ geo' = [geo EXCEPT ![r] = None]
    /\ lid' = [lid EXCEPT ![r] = 0]
    /\ sel' = [sel EXCEPT ![r] = {}]
    /\ chg' = [chg EXCEPT ![r] = NoChange]
    /\ resp' = [resp EXCEPT ![r] = response]

\* the client has the response; get_db closes the request's session
Return(r) ==
    /\ pc[r] = "done"
    /\ pc' = [pc EXCEPT ![r] = "idle"]
    /\ resp' = [resp EXCEPT ![r] = NoResponse]
    /\ hist' = End(resp[r])
    /\ UNCHANGED <<dbvars, geo, lid, sel, chg, mode, search>>

----------------------------------------------------------------------------
(* sync_location_weather, main.py 143-171: shared by POST /api/sync/{id}   *)
(* and by create_location's initial sync                                   *)

\* lines 154-170: the flush of session.commit().  UPDATE location SET
\* last_synced WHERE id = ? and INSERT INTO weathersnapshot, one transaction.
SyncWrite(location_id, weather_data, now) ==
    /\ locations' = [locations EXCEPT ![location_id].last_synced = Some(now)]
    /\ snapshots' = Insert(snapshots, NextId(snapshots),
                           NewSnapshot(location_id, Get(weather_data)))

\* lines 150-171 for the session's location `location_id`: the status the
\* call ends with, and the tables after it.  An UPDATE that matches no row
\* (the row was deleted by another session) raises StaleDataError and the
\* transaction is rolled back: 500.
SyncOutcome(location_id, weather_data, now) ==
    IF weather_data = None THEN 503
    ELSE IF location_id \in DOMAIN locations THEN 200
    ELSE 500

\* (mutant) last_synced written before the provider's answer is looked at
SyncEffectStampFirst(location_id, weather_data, now) ==
    IF location_id \notin DOMAIN locations THEN UNCHANGED dbvars
    ELSE IF weather_data = None
    THEN /\ locations' = [locations EXCEPT ![location_id].last_synced = Some(now)]
         /\ UNCHANGED snapshots
    ELSE /\ NextId(snapshots) <= MaxSnapId
         /\ SyncWrite(location_id, weather_data, now)

SyncEffect(location_id, weather_data, now) ==
    IF SyncOutcome(location_id, weather_data, now) = 200
    THEN /\ NextId(snapshots) <= MaxSnapId
         /\ SyncWrite(location_id, weather_data, now)
    ELSE UNCHANGED dbvars

SyncDetail(status) ==
    IF status = 503 THEN "Weather API unavailable" ELSE "Internal Server Error"

\* POST /api/sync/{location_id}, lines 145-147
sync_location_weather_get(r) ==
    /\ CanStart(r)
    /\ \E location_id \in 1..MaxLocId :
        /\ hist' = Begin("sync", None)
        /\ IF location_id \in DOMAIN locations
           THEN /\ pc' = [pc EXCEPT ![r] = "sync_await"]
                /\ lid' = [lid EXCEPT ![r] = location_id]
                /\ UNCHANGED <<geo, sel, chg, resp>>
           ELSE Finish(r, Error(404, "Location not found"))
    /\ UNCHANGED <<dbvars, mode, search>>

\* lines 150-171
sync_location_weather_finish(r) ==
    /\ pc[r] = "sync_await"
    /\ \E weather_data \in get_current_weather(0, 0), now \in Times :
        LET status == SyncOutcome(lid[r], weather_data, now) IN
        /\ SyncEffect(lid[r], weather_data, now)
        /\ hist' = Weather(weather_data)
        /\ IF status = 200
           THEN Finish(r, Ok([status |-> "success",
                               data |-> WithId(snapshots', NextId(snapshots))]))
           ELSE Finish(r, Error(status, SyncDetail(status)))
    /\ UNCHANGED <<mode, search>>

----------------------------------------------------------------------------
(* create_location, POST /api/locations, main.py 51-84 *)

\* lines 61-68: resolve the name, look for a row at the coordinates
create_location_resolve(r) ==
    /\ CanStart(r)
    /\ \E city_name \in CityNames :
       \E geo_data \in get_coordinates(city_name) :
        /\ hist' = Begin("add", geo_data)
        /\ IF geo_data = None
           THEN Finish(r, Error(404, "City not found or API error"))
           ELSE LET found == Existing(Get(geo_data)) IN
                IF found # {}
                THEN \E existing \in found :
                        Finish(r, Ok(WithId(locations, existing)))
                ELSE /\ NextId(locations) <= MaxLocId
                     /\ pc' = [pc EXCEPT ![r] = "add_insert"]
                     /\ geo' = [geo EXCEPT ![r] = geo_data]
                     /\ UNCHANGED <<lid, sel, chg, resp>>
    /\ UNCHANGED <<dbvars, mode, search>>

\* lines 71-78: INSERT INTO location, commit
create_location_insert(r) ==
    /\ pc[r] = "add_insert"
    /\ NextId(locations) <= MaxLocId
    /\ locations' = Insert(locations, NextId(locations), NewLocation(Get(geo[r])))
    /\ lid' = [lid EXCEPT ![r] = NextId(locations)]
    /\ geo' = [geo EXCEPT ![r] = None]
    /\ pc' = [pc EXCEPT ![r] = "add_refresh"]
    /\ UNCHANGED <<snapshots, sel, chg, resp, mode, hist, search>>

\* line 79: session.refresh(location) selects the row again; it raises
\* when the row is gone (500).  Line 82 then enters sync_location_weather,
\* whose session.get finds the refreshed object in the session.
create_location_refresh(r) ==
    /\ pc[r] = "add_refresh"
    /\ IF lid[r] \in DOMAIN locations
       THEN /\ pc' = [pc EXCEPT ![r] = "add_sync"]
            /\ UNCHANGED <<geo, lid, sel, chg, resp>>
       ELSE Finish(r, Error(500, "Internal Server Error"))
    /\ UNCHANGED <<dbvars, mode, hist, search>>

\* line 82: the initial sync; its HTTPException ends create_location
create_location_sync(r) ==
    /\ pc[r] = "add_sync"
    /\ \E weather_data \in get_current_weather(0, 0), now \in Times :
        LET status == SyncOutcome(lid[r], weather_data, now) IN
        /\ SyncEffect(lid[r], weather_data, now)
        /\ hist' = Weather(weather_data)
        /\ IF status = 200
           THEN /\ pc' = [pc EXCEPT ![r] = "add_return"]
                /\ UNCHANGED <<geo, lid, sel, chg, resp>>
           ELSE Finish(r, Error(status, SyncDetail(status)))
    /\ UNCHANGED <<mode, search>>

\* line 84: the response is built from `location`, which the commit of the
\* sync expired: its attributes are selected again (500 when the row is gone)
create_location_return(r) ==
    /\ pc[r] = "add_return"
    /\ IF lid[r] \in DOMAIN locations
       THEN Finish(r, Ok(WithId(locations, lid[r])))
       ELSE Finish(r, Error(500, "Internal Server Error"))
    /\ UNCHANGED <<dbvars, mode, hist, search>>

----------------------------------------------------------------------------
(* update_location, PATCH /api/locations/{id}, main.py 86-100 *)

\* lines 88-95: load the row and assign the given attributes.  The flush
\* writes only the attributes whose value differs from the loaded one.
Changed(given, loaded) == IF given # None /\ Get(given) # loaded THEN given ELSE None

update_location_get(r) ==
    /\ CanStart(r)
    /\ \E location_id \in 1..MaxLocId :
       \E is_favorite \in {None, Some(TRUE), Some(FALSE)},
          display_name \in {None, Some("Home")} :
        /\ hist' = Begin("update", None)
        /\ IF location_id \in DOMAIN locations
           THEN /\ pc' = [pc EXCEPT ![r] = "update_commit"]
                /\ lid' = [lid EXCEPT ![r] = location_id]
                /\ chg' = [chg EXCEPT ![r] =
                      [is_favorite |-> Changed(is_favorite, locations[location_id].is_favorite),
                       display_name |-> IF display_name # None /\ display_name # locations[location_id].display_name
                                        THEN Some(display_name) ELSE None]]
                /\ UNCHANGED <<geo, sel, resp>>
           ELSE Finish(r, Error(404, "Location not found"))
    /\ UNCHANGED <<dbvars, mode, search>>

\* the row after UPDATE location SET <changed attributes> WHERE id = ?
Updated(row, changes) ==
    [row EXCEPT !.is_favorite = IF changes.is_favorite = None THEN @ ELSE Get(changes.is_favorite),
                !.display_name = IF changes.display_name = None THEN @ ELSE Get(changes.display_name)]

\* lines 97-100: commit, then refresh.  With something to write, an UPDATE
\* matching no row raises StaleDataError; the refresh raises when the row
\* is gone.
update_location_commit(r) ==
    /\ pc[r] = "update_commit"
    /\ IF lid[r] \in DOMAIN locations
       THEN /\ locations' = [locations EXCEPT ![lid[r]] = Updated(@, chg[r])]
            /\ Finish(r, Ok(WithId(locations', lid[r])))
       ELSE /\ UNCHANGED locations
            /\ Finish(r, Error(500, "Internal Server Error"))
    /\ UNCHANGED <<snapshots, mode, hist, search>>

----------------------------------------------------------------------------
(* delete_location, DELETE /api/locations/{id}, main.py 102-115 *)

\* lines 104-106
delete_location_get(r) ==
    /\ CanStart(r)
    /\ \E location_id \in 1..MaxLocId :
        /\ hist' = Begin("delete", None)
        /\ IF location_id \in DOMAIN locations
           THEN /\ pc' = [pc EXCEPT ![r] = "delete_select"]
                /\ lid' = [lid EXCEPT ![r] = location_id]
                /\ UNCHANGED <<geo, sel, chg, resp>>
           ELSE Finish(r, Error(404, "Location not found"))
    /\ UNCHANGED <<dbvars, mode, search>>

\* line 109
delete_location_select(r) ==
    /\ pc[r] = "delete_select"
    /\ sel' = [sel EXCEPT ![r] = SnapshotsOf(lid[r])]
    /\ pc' = [pc EXCEPT ![r] = "delete_commit"]
    /\ UNCHANGED <<dbvars, geo, lid, chg, resp, mode, hist, search>>

\* What the flush of line 114 can do when rows of the location exist that
\* line 109 did not return.  Deleting a Location makes the ORM load
\* Location.snapshots (models.py 19) to null the children it is not
\* deleting; weathersnapshot.location_id is NOT NULL (models.py 27), so a
\* child it finds fails the flush (500, rolled back).  A child committed
\* after that load and before the DELETEs is not seen, and the DELETEs go
\* through.
FlushOutcomes(location_id, selected) ==
    IF SnapshotsOf(location_id) \ selected = {} THEN {"deleted"}
    ELSE {"deleted", "integrity_error"}

\* (mutant) the snapshots left to a cascade the schema does not declare
DeleteRowsNoCascade(location_id, selected) ==
    /\ UNCHANGED snapshots
    /\ locations' = Remove(locations, {location_id})

\* lines 110-114: DELETE the selected snapshots and the location by primary
\* key (a DELETE matching no row only warns)
DeleteRows(location_id, selected) ==
    /\ snapshots' = Remove(snapshots, selected)
    /\ locations' = Remove(locations, {location_id})

\* lines 110-115
delete_location_commit(r) ==
    /\ pc[r] = "delete_commit"
    /\ \E outcome \in FlushOutcomes(lid[r], sel[r]) :
        IF outcome = "deleted"
        THEN /\ DeleteRows(lid[r], sel[r])
             /\ Finish(r, Ok([ok |-> TRUE]))
        ELSE /\ UNCHANGED dbvars
             /\ Finish(r, Error(500, "Internal Server Error"))
    /\ UNCHANGED <<mode, hist, search>>

----------------------------------------------------------------------------
(* search_cities: GET /api/search, main.py 39-49, and the provider client, *)
(* weather_api.py 13-40                                                    *)

\* weather_api.py 22: "limit": 5
SearchLimit == 5
MinQueryLen == 3

Alphabet == {"a", "b"}
Queries == UNION {[1..n -> Alphabet] : n \in 0..MaxQLen}

\* One entry of the geocoder's JSON answer: a dict that may lack "state",
\* and, when the payload is malformed, "name".
ItemWithState == [name |-> "London", country |-> "GB", state |-> "England",
                  lat |-> 515074, lon |-> -1278]
ItemNoState == [name |-> "Paris", country |-> "FR", lat |-> 488566, lon |-> 23522]
ItemNoName == [country |-> "GB", lat |-> 515074, lon |-> -1278]
Items == {"with_state", "no_state", "no_name"}
Item(k) == CASE k = "with_state" -> ItemWithState
             [] k = "no_state" -> ItemNoState
             [] OTHER -> ItemNoName

\* the places the geocoder knows for a query, best first
MatchLists == UNION {[1..n -> Items] : n \in 0..MaxMatches}

Min(a, b) == IF a <= b THEN a ELSE b

\* GET {GEO_URL}/direct?q=...&limit=...: a failure (transport error or
\* non-success status), the first `limit` matches, or, from an upstream
\* that does not apply the parameter, all of them.  The client sends
\* `limit` and reads whatever JSON list comes back.
GeoDirect(matches, limit) ==
    {[ok |-> FALSE, json |-> <<>>],
     [ok |-> TRUE, json |-> SubSeq(matches, 1, Min(limit, Len(matches)))],
     [ok |-> TRUE, json |-> matches]}

\* weather_api.py 28-36: item["name"], item["country"], item["lat"] and
\* item["lon"] raise KeyError when missing; item.get("state", "") does not
Complete(item) == {"name", "country", "lat", "lon"} \subseteq DOMAIN item
Candidate(item) ==
    [name |-> item.name, country |-> item.country,
     state |-> IF "state" \in DOMAIN item THEN item.state ELSE "",
     lat |-> item.lat, lon |-> item.lon]

\* weather_api.search_cities for the upstream's answer: any exception
\* (raise_for_status, a KeyError) is caught and the result is []
ClientSearchCities(response) ==
    LET data == response.json IN
    IF ~response.ok THEN <<>>
    ELSE IF \E i \in 1..Len(data) : ~Complete(Item(data[i])) THEN <<>>
    ELSE [i \in 1..Len(data) |-> Candidate(Item(data[i]))]

\* (mutant) only the empty query is refused
TooShortEmptyOnly(q) == q = <<>>

\* main.py 45: `not q or len(q) < 3`
TooShort(q) == q = <<>> \/ Len(q) < MinQueryLen

\* main.py 45-48, up to the await: the short-query guard, or the GET is sent
search_cities_request ==
    /\ search.pc = "idle"
    /\ \E q \in Queries :
        IF TooShort(q)
        THEN search' = [pc |-> "done", q |-> q, calls |-> 0, result |-> <<>>]
        ELSE search' = [pc |-> "await", q |-> q, calls |-> 1, result |-> <<>>]
    /\ UNCHANGED <<dbvars, reqvars, mode, hist>>

\* weather_api.py 25-40 and main.py 48-49: the upstream answers
search_cities_response ==
    /\ search.pc = "await"
    /\ \E matches \in MatchLists :
       \E response \in GeoDirect(matches, SearchLimit) :
        search' = [search EXCEPT !.pc = "done", !.result = ClientSearchCities(response)]
    /\ UNCHANGED <<dbvars, reqvars, mode, hist>>

search_cities_return ==
    /\ search.pc = "done"
    /\ search' = [pc |-> "idle", q |-> <<>>, calls |-> 0, result |-> <<>>]
    /\ UNCHANGED <<dbvars, reqvars, mode, hist>>

----------------------------------------------------------------------------
(* Specifications *)

NoSearch == [pc |-> "idle", q |-> <<>>, calls |-> 0, result |-> <<>>]

InitRequests ==
    /\ locations = <<>>
    /\ snapshots = <<>>
    /\ pc = [r \in Requests |-> "idle"]
    /\ geo = [r \in Requests |-> None]
    /\ lid = [r \in Requests |-> 0]
    /\ sel = [r \in Requests |-> {}]
    /\ chg = [r \in Requests |-> NoChange]
    /\ resp = [r \in Requests |-> NoResponse]
    /\ search = NoSearch

\* requests handled concurrently, each in a session of its own
Init ==
    /\ InitRequests
    /\ mode = "conc"
    /\ hist = NoHist

\* one client, each call made after the one before has returned
InitSeq ==
    /\ InitRequests
    /\ mode = "seq"
    /\ hist = NoCall

Next ==
    \E r \in Requests :
        \/ create_location_resolve(r)
        \/ create_location_insert(r)
        \/ create_location_refresh(r)
        \/ create_location_sync(r)
        \/ create_location_return(r)
        \/ update_location_get(r)
        \/ update_location_commit(r)
        \/ delete_location_get(r)
        \/ delete_location_select(r)
        \/ delete_location_commit(r)
        \/ sync_location_weather_get(r)
        \/ sync_location_weather_finish(r)
        \/ Return(r)

\* concurrent requests, create_location only
NextAdd ==
    \E r \in Requests :
        \/ create_location_resolve(r)
        \/ create_location_insert(r)
        \/ create_location_refresh(r)
        \/ create_location_sync(r)
        \/ create_location_return(r)
        \/ Return(r)

InitSearch ==
    /\ InitRequests
    /\ mode = "search"
    /\ hist = NoHist

NextSearch ==
    \/ search_cities_request
    \/ search_cities_response
    \/ search_cities_return

Spec == Init /\ [][Next]_vars

SpecSeq == InitSeq /\ [][Next]_vars

SpecAdd == Init /\ [][NextAdd]_vars

SpecSearch == InitSearch /\ [][NextSearch]_vars

----------------------------------------------------------------------------
(* Properties.  C1-C5 are call contracts, checked of calls that do not     *)
(* overlap (SpecSeq, request 1); C6-C7 of the search (SpecSearch); C8 of   *)
(* concurrent create_location requests (SpecAdd); C9-C10 of all the        *)
(* handlers interleaved (Spec).                                            *)

SameCoords(g, h) == g.lat = h.lat /\ g.lon = h.lon
Returned(op) == pc[1] = "done" /\ hist.op = op

\* a create_location call has returned, its name resolved, and so had the
\* name of the create_location call just before it, to the same coordinates
TwoAdds ==
    /\ Returned("add")
    /\ hist.geo # None
    /\ hist.prev.geo # None
    /\ SameCoords(Get(hist.geo), Get(hist.prev.geo))

\* C1 as stated: two Add-location calls that do not overlap and resolve to
\* the same (lat, lon) both return the same Location id, exactly one row
\* with those coordinates exists afterwards, and the second call creates no
\* snapshot and leaves the existing Location unchanged.
C1_IdempotentReAdd_AsStated ==
    TwoAdds =>
        /\ hist.prev.resp.status = 200
        /\ resp[1].status = 200
        /\ Get(resp[1].body).id = Get(hist.prev.resp.body).id
        /\ Cardinality(RowsAt(locations, Get(hist.geo).lat, Get(hist.geo).lon)) = 1
        /\ snapshots = hist.prev.snapshots
        /\ locations = hist.prev.locations

\* C1 amended: of two Add-location calls made one right after the other and
\* resolving to the same (lat, lon), the second returns the id of the one
\* row at those coordinates, creates no snapshot and changes no Location;
\* the first returned that same id, or 503 when its initial sync failed.
C1_IdempotentReAdd ==
    TwoAdds =>
        /\ resp[1].status = 200
        /\ RowsAt(locations, Get(hist.geo).lat, Get(hist.geo).lon) = {Get(resp[1].body).id}
        /\ Get(resp[1].body).row = locations[Get(resp[1].body).id]
        /\ IF hist.prev.resp.status = 200
           THEN Get(hist.prev.resp.body).id = Get(resp[1].body).id
           ELSE hist.prev.resp.status = 503
        /\ snapshots = hist.prev.snapshots
        /\ locations = hist.prev.locations

\* both calls returned a Location, under two names of the same place
C1_Witness ==
    /\ TwoAdds
    /\ hist.prev.resp.status = 200
    /\ resp[1].status = 200
    /\ Get(hist.geo).name # Get(hist.prev.geo).name

\* C2: a Sync-snapshot call for an existing Location id whose provider call
\* returns absent ends with 503 "Weather API unavailable" and no step of
\* the call writes: the snapshot rows and every Location, its last_synced
\* included, are as before the call.
C2_SyncFailureLeavesState ==
    [][ /\ (pc[1] = "idle" /\ pc'[1] = "sync_await") =>
              (lid'[1] \in DOMAIN locations /\ UNCHANGED dbvars)
        /\ (pc[1] = "sync_await" /\ pc'[1] = "done" /\ hist'.weather = None) =>
              /\ hist'.asked
              /\ resp'[1] = Error(503, "Weather API unavailable")
              /\ snapshots' = snapshots
              /\ locations' = locations
      ]_vars

\* a sync of a Location that has been synced before has failed
C2_Witness ==
    /\ Returned("sync")
    /\ hist.asked /\ hist.weather = None
    /\ resp[1].status = 503
    /\ \E i \in DOMAIN locations :
          locations[i].last_synced # None /\ SnapsOf(snapshots, i) # {}

\* C3: a Delete-location call for an existing id succeeds; after it the
\* Location row is gone and no snapshot row has that location id, however
\* many it had, while every other Location and every snapshot of another
\* Location is as before.
C3_CascadeDelete ==
    [][ /\ (pc[1] = "idle" /\ pc'[1] = "delete_select") =>
              (lid'[1] \in DOMAIN locations /\ UNCHANGED dbvars)
        /\ (pc[1] = "delete_select" /\ pc'[1] # "delete_select") =>
              (pc'[1] = "delete_commit" /\ UNCHANGED dbvars)
        /\ (pc[1] = "delete_commit" /\ pc'[1] # "delete_commit") =>
              /\ resp'[1] = Ok([ok |-> TRUE])
              /\ lid[1] \notin DOMAIN locations'
              /\ SnapsOf(snapshots', lid[1]) = {}
              /\ \A i \in DOMAIN locations \ {lid[1]} :
                    i \in DOMAIN locations' /\ locations'[i] = locations[i]
              /\ \A s \in DOMAIN snapshots \ SnapsOf(snapshots, lid[1]) :
                    s \in DOMAIN snapshots' /\ snapshots'[s] = snapshots[s]
              /\ DOMAIN snapshots' \subseteq DOMAIN snapshots
              /\ DOMAIN locations' \subseteq DOMAIN locations
      ]_vars

\* a Location has been deleted with a snapshot of its own (an id below a
\* surviving one is gone) while another Location keeps its snapshot
C3_Witness ==
    /\ Returned("delete")
    /\ resp[1].status = 200
    /\ \E i \in DOMAIN locations : SnapsOf(snapshots, i) # {}
    /\ \E s \in DOMAIN snapshots : \E t \in 1..(s - 1) : t \notin DOMAIN snapshots

\* a create_location call has returned whose name resolved to coordinates
\* at which no Location was
FirstAdd ==
    /\ Returned("add")
    /\ hist.geo # None
    /\ ~hist.existed

\* C4: Add-location for a city resolved to coordinates with no Location,
\* the provider then returning current weather, returns 200 and the new
\* Location with the resolved name, country, lat and lon, is_favorite false
\* and no display name; exactly one row is at those coordinates, exactly one
\* snapshot references it, holding the provider's six values, and its
\* last_synced is set.
C4_FirstAddSucceeds ==
    FirstAdd =>
        /\ hist.asked
        /\ hist.weather # None =>
            LET g == Get(hist.geo)
                w == Get(hist.weather)
            IN  /\ resp[1].status = 200
                /\ LET b == Get(resp[1].body) IN
                    /\ b.row.name = g.name /\ b.row.country = g.country
                    /\ b.row.lat = g.lat /\ b.row.lon = g.lon
                    /\ b.row.is_favorite = FALSE
                    /\ b.row.display_name = None
                    /\ b.row.last_synced # None
                    /\ RowsAt(locations, g.lat, g.lon) = {b.id}
                    /\ locations[b.id] = b.row
                    /\ \E s \in DOMAIN snapshots :
                        /\ SnapsOf(snapshots, b.id) = {s}
                        /\ snapshots[s] =
                              [location_id |-> b.id, temp |-> w.temp,
                               description |-> w.description, icon |-> w.icon,
                               humidity |-> w.humidity, wind_speed |-> w.wind_speed,
                               feels_like |-> w.feels_like]

\* a second Location has been added with its first snapshot
C4_Witness ==
    /\ FirstAdd
    /\ hist.asked /\ hist.weather # None
    /\ resp[1].status = 200
    /\ Cardinality(DOMAIN locations) = 2

\* C5: Add-location for a city resolved to coordinates with no Location,
\* the current-weather call then returning absent, answers 503 and no
\* Location, yet the new row stays: one row at the coordinates, with the
\* resolved fields, last_synced absent, and no snapshot.
C5_AddNotAtomic ==
    (FirstAdd /\ hist.asked /\ hist.weather = None) =>
        LET g == Get(hist.geo) IN
        /\ resp[1] = Error(503, "Weather API unavailable")
        /\ \E i \in DOMAIN locations :
            /\ RowsAt(locations, g.lat, g.lon) = {i}
            /\ locations[i] = [name |-> g.name, country |-> g.country,
                               lat |-> g.lat, lon |-> g.lon,
                               display_name |-> None, is_favorite |-> FALSE,
                               last_synced |-> None]
            /\ SnapsOf(snapshots, i) = {}

C5_Witness ==
    /\ FirstAdd
    /\ hist.asked /\ hist.weather = None
    /\ resp[1].status = 503
    /\ RowsAt(locations, Get(hist.geo).lat, Get(hist.geo).lon) # {}

\* C6: whatever the query and the upstream's answer, search_cities returns
\* at most 5 candidates.
C6_SearchCap == Len(search.result) <= 5

\* C7: for a query of fewer than 3 characters, the empty one included, the
\* request sends nothing upstream and returns [].
C7_ShortQueryGuard ==
    (search.pc # "idle" /\ Len(search.q) < 3) =>
        /\ search.pc = "done"
        /\ search.calls = 0
        /\ search.result = <<>>

C7_Witness == search.pc = "done" /\ Len(search.q) = 2 /\ search.calls = 0

\* C8: every request that inserts a Location found no row at its
\* coordinates when it looked, and nothing but such an insert adds a row;
\* yet two requests may both have looked before either inserted, and then
\* both insert (the witness: two rows with the same coordinates).
C8_InsertOnlyAfterCheck ==
    [][ /\ \A r \in Requests :
            (pc[r] = "idle" /\ pc'[r] = "add_insert") =>
                RowsAt(locations, Get(geo'[r]).lat, Get(geo'[r]).lon) = {}
        /\ \A i \in DOMAIN locations' \ DOMAIN locations :
            \E r \in Requests :
                /\ pc[r] = "add_insert" /\ pc'[r] = "add_refresh"
                /\ locations'[i].lat = Get(geo[r]).lat
                /\ locations'[i].lon = Get(geo[r]).lon
      ]_vars

C8_Witness ==
    \E i, j \in DOMAIN locations :
        /\ i # j
        /\ locations[i].lat = locations[j].lat
        /\ locations[i].lon = locations[j].lon

\* C9: every snapshot row's location_id is the id of a Location row.
C9_ReferentialIntegrity ==
    \A s \in DOMAIN snapshots : snapshots[s].location_id \in DOMAIN locations

\* C10: a Location's last_synced is absent exactly when no snapshot row
\* references the Location.
C10_SyncedIffSnapshot ==
    \A i \in DOMAIN locations :
        (locations[i].last_synced = None) <=> (SnapsOf(snapshots, i) = {})

====
